---- MODULE Spec2Model ----
(***************************************************************************)
(* bowtie-inspect (src/bowtie_inspect.cpp): reconstruction of the          *)
(* reference sequences of an index, by the packed-store path               *)
(* (print_ref_sequences / print_ref_sequence), by the traversal path       *)
(* (print_index_sequences), the FASTA formatter (print_fasta_record) and   *)
(* the command line front end (parseOptions, main, driver).                *)
(*                                                                         *)
(* The index engine (Ebwt, BitPairReference) is not part of the source     *)
(* file; it is modelled as a small synthetic index: per reference a        *)
(* declared length and a set of masked (ambiguous) offsets.                *)
(***************************************************************************)
EXTENDS Integers, Sequences, FiniteSets, TLC

VARIABLES
    \* ---- the index served by the engine
    color,          \* index is colorspace
    plen,           \* ebwt.plen(): declared length of every reference
    masked,         \* per reference, the offsets the index does not hold
    rstarts,        \* the joined-coordinate table, once loaded into memory
    \* ---- configuration (file-scope statics, lines 16-21)
    showVersion, verbose, names_only, summarize_only, across, refFromEbwt,
    \* ---- the command line and the process (lines 91-117, 396-459)
    opts,           \* the options getopt_long has still to return
    hasIndex,       \* an argument is left after the options (optind < argc)
    cerr,           \* what was written to the error stream
    status,         \* the exit status, -1 while the process runs
    failure,        \* what ended the run early, "none" if nothing did
    paths,          \* the output paths entered
    \* ---- program position
    pc,
    \* ---- print_index_sequences locals (lines 215-226)
    cat_ref, i, curr_ref, curr_ref_seq, curr_ref_len, last_text_off, first,
    tlog,           \* one entry per loop iteration that passed line 234
    \* ---- print_ref_sequences / print_ref_sequence locals (lines 153-158, 198)
    refi,           \* i of print_ref_sequences
    ri,             \* i of print_ref_sequence
    incr,
    requests,       \* one entry per ref.getStretch call
    \* ---- output
    records,        \* (defline, seq) of every print_fasta_record call
    fout,           \* the lines written to the output stream
    prev_out        \* the output stream of the previous run on the same index

idxVars  == <<color, plen, masked, rstarts>>
cfgVars  == <<showVersion, verbose, names_only, summarize_only, across, refFromEbwt>>
mainVars == <<opts, hasIndex, cerr, status, failure>>
travVars == <<cat_ref, i, curr_ref, curr_ref_seq, curr_ref_len, last_text_off, first, tlog>>
packVars == <<refi, ri, incr, requests>>
outVars  == <<records, fout>>
vars     == <<idxVars, cfgVars, mainVars, paths, pc, travVars, packVars, outVars, prev_out>>

----------------------------------------------------------------------------
\* Bounds of the model

MaxRefs == 2
MaxLen == 3
MaxAcross == 2
MaxSeqLen == 4
MaxWindows == 1
MaxRequests == 6
MaxArgs == 3

\* Program constants

\* 0xffffffff (lines 220-229). The model checker's integers are 32-bit signed:
\* a uint32_t is held as the int32_t of the same bits, so 0xffffffff is -1,
\* and unsigned comparisons go through ULt.
NoRef == -1
DefaultAcross == 60
WindowLines == 1000
IntMax == 2147483647

----------------------------------------------------------------------------
\* Helpers

Ns(n) == [k \in 1..n |-> "N"]

\* a < b on unsigned values held as signed bit patterns
ULt(a, b) == IF a < 0 THEN (b < 0 /\ a < b) ELSE (b < 0 \/ a < b)

\* the lines ls[a..b] joined
RECURSIVE ConcatRange(_, _, _)
ConcatRange(ls, a, b) ==
    IF a > b THEN <<>>
    ELSE IF a = b THEN ls[a]
    ELSE LET m == (a + b) \div 2
         IN ConcatRange(ls, a, m) \o ConcatRange(ls, m + 1, b)

Concat(ls) == ConcatRange(ls, 1, Len(ls))

RECURSIVE SeqsUpTo(_, _)
SeqsUpTo(S, n) ==
    IF n = 0 THEN {<<>>}
    ELSE LET shorter == SeqsUpTo(S, n - 1)
         IN shorter \cup {Append(s, x) : s \in {t \in shorter : Len(t) = n - 1}, x \in S}

----------------------------------------------------------------------------
\* The index engine

NumRefs == Len(plen)

\* ebwt.refnames(): the name of reference r (0-based ordinal)
refnames(r) == <<"ref", r>>

\* the nucleotide of reference r at offset off, as a code 0..3
Nuc(r, off) == (r + off) % 4

Xor2(a, b) == ((a + b) % 2) + 2 * (((a \div 2) + (b \div 2)) % 2)

\* the symbol the joined text holds for offset off of reference r
TextSym(r, off) ==
    LET c == IF color THEN Xor2(Nuc(r, off), Nuc(r, off + 1)) ELSE Nuc(r, off)
    IN <<"A", "C", "G", "T">>[c + 1]

NoMapping == [sym |-> "A", tidx |-> NoRef, textoff |-> NoRef, tlen |-> NoRef]

\* the joined-text positions of reference r: its unmasked offsets, ascending
RefEntries(r) ==
    LET all == [k \in 1..plen[r + 1] |->
                   [sym |-> TextSym(r, k - 1), tidx |-> r,
                    textoff |-> k - 1, tlen |-> plen[r + 1]]]
        Kept(e) == e.textoff \notin masked[r + 1]
    IN SelectSeq(all, Kept)

RECURSIVE JoinedFrom(_)
JoinedFrom(r) ==
    IF r >= NumRefs THEN <<>>
    ELSE RefEntries(r)
         \o (IF r + 1 < NumRefs THEN <<NoMapping>> ELSE <<>>)
         \o JoinedFrom(r + 1)

\* the joined coordinate space: every reference's positions in ordinal
\* order, a separator position between two references
Joined == JoinedFrom(0)

\* ebwt.restore(cat_ref)
restore == [k \in 1..Len(rstarts) |-> rstarts[k].sym]

\* ebwt.joinedToTextOff(1, off, tidx, textoff, tlen)
joinedToTextOff(off) ==
    LET e == rstarts[off + 1]
    IN [tidx |-> e.tidx, textoff |-> e.textoff, tlen |-> e.tlen]

----------------------------------------------------------------------------
\* print_fasta_record (lines 119-139)

\* the loop of lines 129-133 without the remainder of lines 134-135
RECURSIVE WrapLinesNoTail(_, _, _)
WrapLinesNoTail(seq, k, w) ==
    IF k + w < Len(seq)
    THEN <<SubSeq(seq, k + 1, k + w)>> \o WrapLinesNoTail(seq, k + w, w)
    ELSE <<>>

\* the while loop of lines 129-135, from position k
RECURSIVE WrapLines(_, _, _)
WrapLines(seq, k, w) ==
    IF k + w < Len(seq)
    THEN <<SubSeq(seq, k + 1, k + w)>> \o WrapLines(seq, k + w, w)
    ELSE IF k < Len(seq) THEN <<SubSeq(seq, k + 1, Len(seq))>> ELSE <<>>

HeaderLine(defline) == <<">">> \o defline

print_fasta_record(defline, seq) ==
    <<HeaderLine(defline)>>
    \o (IF across > 0 THEN WrapLines(seq, 0, across) ELSE <<seq>>)

----------------------------------------------------------------------------
\* print_index_sequences (lines 212-272)

\* no trailing gaps added
PadTrailingNone(seq, len) == seq

\* lines 241-243 / 266-268: trailing gaps
PadTrailing(seq, len) ==
    IF ULt(Len(seq), len) THEN seq \o Ns(len - Len(seq)) ELSE seq

\* the adjustment of line 254 left out
TextoffAdjNever(isFirst, textoff) == textoff

\* lines 253-254
TextoffAdj(isFirst, textoff) ==
    IF isFirst /\ ULt(0, textoff) THEN textoff + 1 ELSE textoff

\* the gap filled with one N too many
GapFillOffByOne(textoff_adj, last) ==
    LET d == IF textoff_adj >= last THEN textoff_adj - last ELSE IntMax
    IN IF d > 1 THEN d ELSE 0

\* lines 255-256: number of N inserted before the base. The difference is
\* a uint32_t: when textoff_adj < last it wraps to 2^32 - (last - textoff_adj),
\* which the model holds as IntMax (more N than any sequence of the model)
GapFill(textoff_adj, last) ==
    LET d == IF textoff_adj >= last THEN textoff_adj - last ELSE IntMax
    IN IF d > 1 THEN d - 1 ELSE 0

\* lines 217-226
TravStart ==
    /\ pc = "trav_start"
    /\ cat_ref' = restore
    /\ i' = 0
    /\ curr_ref' = NoRef
    /\ curr_ref_seq' = <<>>
    /\ curr_ref_len' = NoRef
    /\ last_text_off' = 0
    /\ first' = TRUE
    /\ pc' = "trav_loop"
    /\ paths' = Append(paths, "traversal")
    /\ UNCHANGED <<idxVars, cfgVars, mainVars, tlog, packVars, outVars, prev_out>>

\* one iteration of the loop of line 227 whose position maps (line 234 true)
TravBase ==
    /\ pc = "trav_loop"
    /\ i < Len(cat_ref)
    /\ LET m == joinedToTextOff(i)
       IN /\ m.tidx # NoRef /\ ULt(m.textoff, m.tlen)
          /\ LET switch == curr_ref # m.tidx
                 flush == switch /\ curr_ref # NoRef
                 done == PadTrailing(curr_ref_seq, curr_ref_len)
                 seq1 == IF switch THEN <<>> ELSE curr_ref_seq
                 last1 == IF switch THEN 0 ELSE last_text_off
                 first1 == IF switch THEN TRUE ELSE first
                 adj == TextoffAdj(first1, m.textoff)
                 gap == GapFill(adj, last1)
             IN /\ records' = IF flush
                              THEN Append(records, [defline |-> refnames(curr_ref), seq |-> done])
                              ELSE records
                /\ fout' = IF flush
                           THEN fout \o print_fasta_record(refnames(curr_ref), done)
                           ELSE fout
                /\ curr_ref' = m.tidx
                /\ curr_ref_len' = IF switch THEN m.tlen ELSE curr_ref_len
                /\ curr_ref_seq' = (seq1 \o Ns(gap)) \o <<cat_ref[i + 1]>>
                /\ last_text_off' = m.textoff
                /\ first' = FALSE
                /\ tlog' = Append(tlog, [tidx |-> m.tidx, textoff |-> m.textoff,
                                         adj |-> adj, gap |-> gap,
                                         sym |-> cat_ref[i + 1]])
    /\ i' = i + 1
    /\ UNCHANGED <<idxVars, cfgVars, mainVars, paths, pc, cat_ref, packVars, prev_out>>

\* one iteration of the loop whose position does not map (line 234 false)
TravSkip ==
    /\ pc = "trav_loop"
    /\ i < Len(cat_ref)
    /\ LET m == joinedToTextOff(i)
       IN ~(m.tidx # NoRef /\ ULt(m.textoff, m.tlen))
    /\ i' = i + 1
    /\ UNCHANGED <<idxVars, cfgVars, mainVars, paths, pc, cat_ref, curr_ref, curr_ref_seq,
                   curr_ref_len, last_text_off, first, tlog, packVars, outVars,
                   prev_out>>

\* lines 263-270: the flush after the loop
TravFinish ==
    /\ pc = "trav_loop"
    /\ i >= Len(cat_ref)
    /\ LET done == PadTrailing(curr_ref_seq, curr_ref_len)
       IN IF ULt(curr_ref, NumRefs)
          THEN /\ records' = Append(records, [defline |-> refnames(curr_ref), seq |-> done])
               /\ fout' = fout \o print_fasta_record(refnames(curr_ref), done)
          ELSE UNCHANGED outVars
    /\ pc' = "trav_done"
    /\ UNCHANGED <<idxVars, cfgVars, mainVars, paths, travVars, packVars, prev_out>>

----------------------------------------------------------------------------
\* print_ref_sequences, print_ref_sequence (lines 146-206)

\* the packed store's symbol code (0..4) of reference r at offset off
PackedCode(r, off) == IF off \in masked[r + 1] THEN 4 ELSE Nuc(r, off)

\* ref.getStretch(buf, r, off, amt): the amt codes from offset off
getStretch(r, off, amt) ==
    SubSeq([j \in 1..amt |-> PackedCode(r, off + j - 1)], 1, amt)

\* line 166: "ACGTN"[(int)cb[j]]
DecodeSym(c) == <<"A", "C", "G", "T", "N">>[c + 1]

\* line 204: the length handed to print_ref_sequence
RefLen(r) == plen[r + 1] + (IF color THEN 1 ELSE 0)

\* lines 153-154
newlines == across > 0
myacross == IF across > 0 THEN across ELSE DefaultAcross

\* the low 32 bits of a * b as an int, for 0 <= a and 0 <= b < 2^15
WrapMul(a, b) ==
    LET lo == (a % 65536) * b
        hi == ((a \div 65536) * b + (lo \div 65536)) % 65536
    IN IF hi < 32768 THEN hi * 65536 + (lo % 65536)
       ELSE (hi - 65536) * 65536 + (lo % 65536)

\* line 155: size_t incr = myacross * 1000. The product is an int; beyond
\* INT_MAX it is undefined: the build yields the wrapped int (converted to
\* size_t) or the exact product. A size_t beyond the model checker's
\* integers is held as IntMax, more than any length of the model.
IncrOutcomes ==
    IF myacross <= IntMax \div WindowLines
    THEN {myacross * WindowLines}
    ELSE { IF WrapMul(myacross, WindowLines) >= 0
           THEN WrapMul(myacross, WindowLines) ELSE IntMax,
           IntMax }

\* i += incr on values held up to IntMax
AddSize(a, b) == IF a > IntMax - b THEN IntMax ELSE a + b

\* lines 163-168 with a line break after every window, wanted or not
WindowOutput(cb) ==
    LET amt == Len(cb)
        text == [j \in 1..amt |-> DecodeSym(cb[j])]
        Min(a, b) == IF a < b THEN a ELSE b
    IN IF newlines /\ amt > 0
       THEN [k \in 1..((amt + myacross - 1) \div myacross) |->
               SubSeq(text, (k - 1) * myacross + 1, Min(k * myacross, amt))]
       ELSE <<text>>

\* lines 185-198: the reference is opened, the loop starts
PackedStart ==
    /\ pc = "packed_start"
    /\ refi' = 0
    /\ pc' = "packed_refs"
    /\ paths' = Append(paths, "packed")
    /\ UNCHANGED <<idxVars, cfgVars, mainVars, travVars, ri, incr, requests, outVars, prev_out>>

\* lines 198-204, 153-157: print_ref_sequence is entered for reference refi
PackedRefBegin ==
    /\ pc = "packed_refs"
    /\ refi < NumRefs
    /\ incr' \in IncrOutcomes
    /\ ri' = 0
    /\ fout' = Append(fout, HeaderLine(refnames(refi)))
    /\ pc' = "packed_window"
    /\ UNCHANGED <<idxVars, cfgVars, mainVars, paths, travVars, refi, requests, records, prev_out>>

\* one iteration of the loop of line 158
PackedWindow ==
    /\ pc = "packed_window"
    /\ ri < RefLen(refi)
    /\ Len(requests) < MaxRequests
    /\ LET rest == RefLen(refi) - ri
           amt == IF incr < rest THEN incr ELSE rest
           cb == getStretch(refi, ri, amt)
       IN /\ requests' = Append(requests, [refi |-> refi, off |-> ri, amt |-> amt])
          /\ fout' = fout \o WindowOutput(cb)
    /\ ri' = AddSize(ri, incr)
    /\ UNCHANGED <<idxVars, cfgVars, mainVars, paths, pc, travVars, refi, incr, records, prev_out>>

\* the loop of line 158 ends, print_ref_sequence returns
PackedRefEnd ==
    /\ pc = "packed_window"
    /\ ri >= RefLen(refi)
    /\ refi' = refi + 1
    /\ pc' = "packed_refs"
    /\ UNCHANGED <<idxVars, cfgVars, mainVars, paths, travVars, ri, incr, requests, outVars, prev_out>>

\* the loop of line 198 ends
PackedFinish ==
    /\ pc = "packed_refs"
    /\ refi >= NumRefs
    /\ pc' = "packed_done"
    /\ UNCHANGED <<idxVars, cfgVars, mainVars, paths, travVars, packVars, outVars, prev_out>>

----------------------------------------------------------------------------
\* parseOptions, main, driver (lines 70-117, 276-459)

Usage == "Usage: bowtie-inspect [options]* <ebwt_base>"
CommandLine == "Command: argv"

\* a handler that never writes the Command line
CatchIntSilent(e, err) == err

\* lines 451-457: catch(int e)
CatchInt(e, err) == IF e # 0 THEN Append(err, CommandLine) ELSE err

\* the options of lines 102-106
ParseFlag ==
    /\ pc = "parse"
    /\ opts # <<>>
    /\ Head(opts).opt \in {"v", "version", "e", "n", "s"}
    /\ verbose' = IF Head(opts).opt = "v" THEN TRUE ELSE verbose
    /\ showVersion' = IF Head(opts).opt = "version" THEN TRUE ELSE showVersion
    /\ refFromEbwt' = IF Head(opts).opt = "e" THEN TRUE ELSE refFromEbwt
    /\ names_only' = IF Head(opts).opt = "n" THEN TRUE ELSE names_only
    /\ summarize_only' = IF Head(opts).opt = "s" THEN TRUE ELSE summarize_only
    /\ opts' = Tail(opts)
    /\ UNCHANGED <<idxVars, across, hasIndex, cerr, status, failure, paths, pc,
                   travVars, packVars, outVars, prev_out>>

\* line 107 and parseInt (lines 70-86) with lower = -1
ParseAcross ==
    /\ pc = "parse"
    /\ opts # <<>>
    /\ Head(opts).opt = "a"
    /\ opts' = Tail(opts)
    /\ IF Head(opts).arg < -1
       THEN /\ cerr' = CatchInt(1, cerr \o <<"-a/--across arg must be at least 1", Usage>>)
            /\ status' = 1
            /\ failure' = "option"
            /\ pc' = "exit"
            /\ UNCHANGED across
       ELSE /\ across' = Head(opts).arg
            /\ UNCHANGED <<cerr, status, failure, pc>>
    /\ UNCHANGED <<idxVars, showVersion, verbose, names_only, summarize_only,
                   refFromEbwt, hasIndex, paths, travVars, packVars, outVars, prev_out>>

\* lines 97-101: usage on the output stream, throw 0
ParseHelp ==
    /\ pc = "parse"
    /\ opts # <<>>
    /\ Head(opts).opt = "h"
    /\ opts' = Tail(opts)
    /\ fout' = Append(fout, <<Usage>>)
    /\ cerr' = CatchInt(0, cerr)
    /\ status' = 0
    /\ pc' = "exit"
    /\ UNCHANGED <<idxVars, cfgVars, hasIndex, failure, paths, travVars, packVars,
                   records, prev_out>>

\* lines 112-114: an option getopt_long does not know, throw 1
ParseUnknown ==
    /\ pc = "parse"
    /\ opts # <<>>
    /\ Head(opts).opt = "?"
    /\ opts' = Tail(opts)
    /\ cerr' = CatchInt(1, Append(cerr, Usage))
    /\ status' = 1
    /\ failure' = "option"
    /\ pc' = "exit"
    /\ UNCHANGED <<idxVars, cfgVars, hasIndex, paths, travVars, packVars, outVars,
                   prev_out>>

\* line 108: getopt_long returns -1
ParseDone ==
    /\ pc = "parse"
    /\ opts = <<>>
    /\ pc' = "main"
    /\ UNCHANGED <<idxVars, cfgVars, mainVars, paths, travVars, packVars, outVars,
                   prev_out>>

\* lines 404-423
MainVersion ==
    /\ pc = "main"
    /\ showVersion
    /\ fout' = Append(fout, <<"version">>)
    /\ status' = 0
    /\ pc' = "exit"
    /\ UNCHANGED <<idxVars, cfgVars, opts, hasIndex, cerr, failure, paths, travVars,
                   packVars, records, prev_out>>

\* lines 426-430
MainNoIndex ==
    /\ pc = "main"
    /\ ~showVersion
    /\ ~hasIndex
    /\ cerr' = cerr \o <<"No index name given!", Usage>>
    /\ status' = 1
    /\ failure' = "noindex"
    /\ pc' = "exit"
    /\ UNCHANGED <<idxVars, cfgVars, opts, hasIndex, paths, travVars, packVars,
                   outVars, prev_out>>

\* lines 431-444: driver is called
MainDriver ==
    /\ pc = "main"
    /\ ~showVersion
    /\ hasIndex
    /\ fout' = IF verbose THEN Append(fout, <<"Input ebwt file">>) ELSE fout
    /\ pc' = "driver"
    /\ UNCHANGED <<idxVars, cfgVars, mainVars, paths, travVars, packVars, records,
                   prev_out>>

\* the branch by summarize_only first
DriverTargetSummaryFirst ==
    IF summarize_only THEN "summary"
    ELSE IF names_only THEN "names"
    ELSE IF refFromEbwt THEN "trav_start"
    ELSE "packed_start"

\* lines 339-385: the branch driver takes
DriverTarget ==
    IF names_only THEN "names"
    ELSE IF summarize_only THEN "summary"
    ELSE IF refFromEbwt THEN "trav_start"
    ELSE "packed_start"

\* lines 337-385: the index is opened (and loaded, line 367) and one
\* output function is called
Driver ==
    /\ pc = "driver"
    /\ pc' = DriverTarget
    /\ rstarts' = IF DriverTarget = "trav_start" THEN Joined ELSE rstarts
    /\ UNCHANGED <<color, plen, masked, cfgVars, mainVars, paths, travVars,
                   packVars, outVars, prev_out>>

\* print_index_sequence_names (lines 276-283)
NamesPath ==
    /\ pc = "names"
    /\ fout' = fout \o [r \in 1..NumRefs |-> refnames(r - 1)]
    /\ paths' = Append(paths, "names")
    /\ pc' = "names_done"
    /\ UNCHANGED <<idxVars, cfgVars, mainVars, travVars, packVars, records,
                   prev_out>>

\* print_index_summary (lines 288-330)
SummaryPath ==
    /\ pc = "summary"
    /\ fout' = (fout \o <<<<"Flags">>, <<"Reverse flags">>,
                            <<"Colorspace", IF color THEN "1" ELSE "0">>,
                            <<"2.0-compatible">>, <<"SA-Sample">>, <<"FTab-Chars">>>>)
                \o [r \in 1..NumRefs |-> <<"Sequence", r, refnames(r - 1), RefLen(r - 1)>>]
    /\ paths' = Append(paths, "summary")
    /\ pc' = "summary_done"
    /\ UNCHANGED <<idxVars, cfgVars, mainVars, travVars, packVars, records,
                   prev_out>>

\* lines 386-390, 445: driver returns, main returns 0
DriverReturn ==
    /\ pc \in {"names_done", "summary_done", "trav_done", "packed_done"}
    /\ rstarts' = <<>>
    /\ status' = 0
    /\ pc' = "exit"
    /\ UNCHANGED <<color, plen, masked, cfgVars, opts, hasIndex, cerr, failure,
                   paths, travVars, packVars, outVars, prev_out>>

\* the engine fails while the index is opened or read: it throws a
\* std::exception (lines 446-450) or an int 1 (lines 451-457)
EngineFails ==
    /\ pc \in {"driver", "names", "summary", "trav_start", "packed_start"}
    /\ \E kind \in {"engine_exception", "engine_int"} :
          /\ failure' = kind
          /\ cerr' = IF kind = "engine_int" THEN CatchInt(1, cerr)
                     ELSE Append(cerr, CommandLine)
    /\ status' = 1
    /\ pc' = "exit"
    /\ UNCHANGED <<idxVars, cfgVars, opts, hasIndex, paths, travVars, packVars,
                   outVars, prev_out>>

----------------------------------------------------------------------------
\* Specifications

\* the indexes of the model: 1..MaxRefs references of length 1..MaxLen, any
\* set of offsets masked
IndexesOf(n) ==
    { ix \in [p : [1..n -> 1..MaxLen], m : [1..n -> SUBSET (0..(MaxLen - 1))]] :
        \A r \in 1..n : ix.m[r] \subseteq 0..(ix.p[r] - 1) }

Indexes == UNION { IndexesOf(n) : n \in 1..MaxRefs }

InitLocals ==
    /\ cat_ref = <<>>
    /\ i = 0
    /\ curr_ref = NoRef
    /\ curr_ref_seq = <<>>
    /\ curr_ref_len = NoRef
    /\ last_text_off = 0
    /\ first = TRUE
    /\ tlog = <<>>
    /\ records = <<>>
    /\ fout = <<>>
    /\ refi = 0
    /\ ri = 0
    /\ incr = 0
    /\ requests = <<>>
    /\ prev_out = <<>>

\* the statics of lines 16-21 and a process that has parsed its options
InitProcess ==
    /\ showVersion = FALSE
    /\ verbose = FALSE
    /\ names_only = FALSE
    /\ summarize_only = FALSE
    /\ opts = <<>>
    /\ hasIndex = TRUE
    /\ cerr = <<>>
    /\ status = -1
    /\ failure = "none"
    /\ paths = <<>>

\* the traversal path over every index of the model, loaded into memory
InitTrav ==
    /\ \E ix \in Indexes : plen = ix.p /\ masked = ix.m
    /\ color = FALSE
    /\ rstarts = Joined
    /\ across \in {0, MaxAcross}
    /\ refFromEbwt = TRUE
    /\ pc = "trav_start"
    /\ InitProcess
    /\ InitLocals

NextTrav == TravStart \/ TravBase \/ TravSkip \/ TravFinish

SpecTrav == InitTrav /\ [][NextTrav]_vars

\* the packed-store path on references around the window boundaries
PackedLens ==
    LET w == IF myacross <= IntMax \div WindowLines THEN myacross * WindowLines ELSE 0
    IN { n \in { k * w + d : k \in 0..MaxWindows, d \in {-1, 0, 1} } : n >= 0 }

InitPacked ==
    /\ across \in ((-1)..MaxAcross) \cup {536870912}
    /\ color \in BOOLEAN
    /\ \E n \in 1..MaxRefs :
          /\ plen \in { f \in [1..n -> PackedLens] : \A r \in 2..n : f[r] <= 1 }
          /\ masked \in { f \in [1..n -> {{}, {0}}] : \A r \in 1..n : f[r] \subseteq 0..(plen[r] - 1) }
    /\ rstarts = <<>>
    /\ refFromEbwt = FALSE
    /\ pc = "packed_start"
    /\ InitProcess
    /\ InitLocals

NextPacked ==
    PackedStart \/ PackedRefBegin \/ PackedWindow \/ PackedRefEnd \/ PackedFinish

SpecPacked == InitPacked /\ [][NextPacked]_vars

\* both paths on the same index: the packed-store path, then a second run
\* with -e
InitCross ==
    /\ \E ix \in Indexes : plen = ix.p /\ masked = ix.m
    /\ color \in BOOLEAN
    /\ rstarts = <<>>
    /\ across \in {0, MaxAcross}
    /\ refFromEbwt = FALSE
    /\ pc = "packed_start"
    /\ InitProcess
    /\ InitLocals

\* the second run: lines 366-375, the index loaded into memory
CrossRerun ==
    /\ pc = "packed_done"
    /\ prev_out' = fout
    /\ fout' = <<>>
    /\ rstarts' = Joined
    /\ pc' = "trav_start"
    /\ UNCHANGED <<color, plen, masked, cfgVars, mainVars, paths, travVars, packVars, records>>

NextCross == NextPacked \/ CrossRerun \/ NextTrav

SpecCross == InitCross /\ [][NextCross]_vars

\* the whole program on every command line of at most MaxArgs options
Options ==
    [opt : {"v", "version", "h", "n", "s", "e", "?"}, arg : {0}]
    \cup [opt : {"a"}, arg : {-2, 0, MaxAcross}]

Init ==
    /\ showVersion = FALSE
    /\ verbose = FALSE
    /\ names_only = FALSE
    /\ summarize_only = FALSE
    /\ across = DefaultAcross
    /\ refFromEbwt = FALSE
    /\ opts \in SeqsUpTo(Options, MaxArgs)
    /\ hasIndex \in BOOLEAN
    /\ cerr = <<>>
    /\ status = -1
    /\ failure = "none"
    /\ paths = <<>>
    /\ color = FALSE
    /\ plen = <<2, 1>>
    /\ masked = <<{}, {}>>
    /\ rstarts = <<>>
    /\ pc = "parse"
    /\ InitLocals

Next ==
    \/ ParseFlag \/ ParseAcross \/ ParseHelp \/ ParseUnknown \/ ParseDone
    \/ MainVersion \/ MainNoIndex \/ MainDriver
    \/ Driver \/ NamesPath \/ SummaryPath \/ NextTrav \/ NextPacked
    \/ DriverReturn \/ EngineFails

Spec == Init /\ [][Next]_vars

\* print_fasta_record on every sequence of 1..MaxSeqLen symbols
Symbols == {"A", "C", "G", "T", "N"}

InitFasta ==
    /\ color = FALSE
    /\ rstarts = <<>>
    /\ across \in (-1)..MaxAcross
    /\ refFromEbwt = TRUE
    /\ InitProcess
    /\ pc = "fasta_call"
    /\ cat_ref = <<>>
    /\ i = 0
    /\ curr_ref = 0
    /\ curr_ref_seq \in SeqsUpTo(Symbols, MaxSeqLen) \ {<<>>}
    /\ curr_ref_len = Len(curr_ref_seq)
    /\ plen = <<Len(curr_ref_seq)>>
    /\ masked = <<{}>>
    /\ last_text_off = 0
    /\ first = FALSE
    /\ tlog = <<>>
    /\ records = <<>>
    /\ fout = <<>>
    /\ refi = 0
    /\ ri = 0
    /\ incr = 0
    /\ requests = <<>>
    /\ prev_out = <<>>

\* the call of line 269 on the current sequence
FastaCall ==
    /\ pc = "fasta_call"
    /\ records' = Append(records, [defline |-> refnames(curr_ref), seq |-> curr_ref_seq])
    /\ fout' = fout \o print_fasta_record(refnames(curr_ref), curr_ref_seq)
    /\ pc' = "fasta_done"
    /\ UNCHANGED <<idxVars, cfgVars, mainVars, paths, travVars, packVars, prev_out>>

NextFasta == FastaCall

SpecFasta == InitFasta /\ [][NextFasta]_vars

----------------------------------------------------------------------------
\* Properties of the traversal path (SpecTrav)

RefOf(defline) == defline[2]

\* the unmasked offsets of reference r
Observed(r) == (0..(plen[r + 1] - 1)) \ masked[r + 1]

\* entry k of tlog is the first mapped position of its reference
FirstOfRef(k) == k = 1 \/ tlog[k - 1].tidx # tlog[k].tidx

\* the entries of tlog that belong to the reference being assembled
CurrentRun == { k \in 1..Len(tlog) :
                  \A j \in k..Len(tlog) : tlog[j].tidx = curr_ref }

\* C1: every record emitted by the traversal path has a sequence whose
\* length is exactly the declared length of its reference, never shorter
\* and never longer.
C1_EmittedLengthIsDeclared ==
    \A k \in 1..Len(records) :
        Len(records[k].seq) = plen[RefOf(records[k].defline) + 1]

\* a reference whose last offsets are masked has been emitted, padded
C1_Witness ==
    \E k \in 1..Len(records) :
        LET r == RefOf(records[k].defline)
            s == records[k].seq
        IN /\ Observed(r) # {}
           /\ (plen[r + 1] - 1) \in masked[r + 1]
           /\ s[Len(s)] = "N"
           /\ \E j \in 1..Len(s) : s[j] # "N"

\* C2: when the traversal has finished, one record per reference of the
\* index has been emitted, in ordinal order, and a reference with no
\* observed base is emitted as N repeated to its declared length.
C2_OneRecordPerReference ==
    pc = "trav_done" =>
        /\ Len(records) = NumRefs
        /\ \A r \in 0..(NumRefs - 1) :
              /\ records[r + 1].defline = refnames(r)
              /\ Observed(r) = {} => records[r + 1].seq = Ns(plen[r + 1])

\* C3: the first mapped position of a reference with offset k > 0 has its
\* offset adjusted by one and exactly k N precede its base; with k = 0
\* nothing is adjusted and no N is inserted; no later position of the
\* reference is adjusted.
C3_FirstBaseFencepost ==
    /\ \A k \in 1..Len(tlog) :
          LET e == tlog[k]
          IN IF FirstOfRef(k)
             THEN IF e.textoff > 0
                  THEN e.adj = e.textoff + 1 /\ e.gap = e.textoff
                  ELSE e.adj = e.textoff /\ e.gap = 0
             ELSE e.adj = e.textoff
    /\ (Len(tlog) > 0 /\ FirstOfRef(Len(tlog)) /\ pc = "trav_loop") =>
          curr_ref_seq = Ns(tlog[Len(tlog)].textoff) \o <<tlog[Len(tlog)].sym>>
    /\ \A k \in 1..Len(records) :
          LET r == RefOf(records[k].defline)
              s == records[k].seq
          IN \A o \in Observed(r) :
                (\A o2 \in Observed(r) : o <= o2) =>
                    /\ \A j \in 1..o : s[j] = "N"
                    /\ s[o + 1] = TextSym(r, o)

\* a reference whose first mapped offset is positive, with a later position
C3_Witness ==
    \E k \in 1..Len(tlog) :
        /\ FirstOfRef(k)
        /\ tlog[k].textoff > 0
        /\ k < Len(tlog)
        /\ tlog[k + 1].tidx = tlog[k].tidx

\* C4: between two consecutive mapped positions of one reference with
\* offsets a < b exactly b - a - 1 N are appended, and every observed base
\* with offset o is at index o of the sequence.
C4_GapFillExact ==
    /\ \A k \in 2..Len(tlog) :
          (tlog[k - 1].tidx = tlog[k].tidx /\ tlog[k - 1].textoff < tlog[k].textoff) =>
              tlog[k].gap = tlog[k].textoff - tlog[k - 1].textoff - 1
    /\ pc = "trav_loop" =>
          \A k \in CurrentRun :
              /\ tlog[k].textoff + 1 <= Len(curr_ref_seq)
              /\ curr_ref_seq[tlog[k].textoff + 1] = tlog[k].sym
    /\ \A k \in 1..Len(records) :
          LET r == RefOf(records[k].defline)
              s == records[k].seq
          IN \A o \in Observed(r) : o + 1 <= Len(s) /\ s[o + 1] = TextSym(r, o)

\* two consecutive mapped positions of one reference with a gap between
C4_Witness ==
    \E k \in 2..Len(tlog) :
        /\ tlog[k - 1].tidx = tlog[k].tidx
        /\ ~FirstOfRef(k)
        /\ tlog[k].textoff - tlog[k - 1].textoff >= 2
        /\ tlog[k].gap >= 1

----------------------------------------------------------------------------
\* Properties of the packed-store path (SpecPacked)

IsHeader(line) == Len(line) >= 1 /\ line[1] = ">"

HasHeader(out, r) == \E k \in 1..Len(out) : out[k] = HeaderLine(refnames(r))

\* the lines of out between the header of reference r and the next header
SeqLinesOf(out, r) ==
    LET h == CHOOSE k \in 1..Len(out) : out[k] = HeaderLine(refnames(r))
        later == { k \in (h + 1)..Len(out) : IsHeader(out[k]) }
        nxt == IF later = {} THEN Len(out) + 1
               ELSE CHOOSE k \in later : \A k2 \in later : k <= k2
    IN SubSeq(out, h + 1, nxt - 1)

\* the getStretch calls made for reference r, in order
RequestsOf(r) ==
    LET Mine(q) == q.refi = r
    IN SelectSeq(requests, Mine)

\* the calls qs are contiguous from offset 0, each of 1..incr symbols
ContiguousFromZero(qs) ==
    /\ \A k \in 1..Len(qs) : 1 <= qs[k].amt
    /\ Len(qs) >= 1 => qs[1].off = 0
    /\ \A k \in 1..(Len(qs) - 1) : qs[k + 1].off = qs[k].off + qs[k].amt

\* C5: with a width of 0 or less, the packed-store path emits the whole
\* sequence of every reference on one single line after its header, whatever
\* its length.
C5_UnwrappedIsOneLine ==
    (pc = "packed_done" /\ across <= 0) =>
        \A r \in 0..(NumRefs - 1) :
            /\ HasHeader(fout, r)
            /\ LET ls == SeqLinesOf(fout, r)
               IN /\ Len(ls) <= 1
                  /\ RefLen(r) > 0 => (Len(ls) = 1 /\ Len(ls[1]) = RefLen(r))

\* C10: the getStretch calls made for a reference of length L come in
\* increasing offset order, are contiguous without overlap, ask for 1..incr
\* symbols each and cover [0, L) exactly once, so L symbols are emitted
\* (no call when L = 0).
C10_WindowsCoverReference ==
    /\ pc = "packed_window" =>
          /\ ContiguousFromZero(RequestsOf(refi))
          /\ \A k \in 1..Len(RequestsOf(refi)) : RequestsOf(refi)[k].amt <= incr
    /\ \A r \in 0..(NumRefs - 1) :
          (pc = "packed_done" \/ (pc \in {"packed_refs", "packed_window"} /\ r < refi)) =>
              LET qs == RequestsOf(r)
                  L == RefLen(r)
              IN /\ ContiguousFromZero(qs)
                 /\ L = 0 => qs = <<>>
                 /\ L > 0 => /\ Len(qs) >= 1
                             /\ qs[Len(qs)].off + qs[Len(qs)].amt = L
                 /\ Len(Concat(SeqLinesOf(fout, r))) = L

----------------------------------------------------------------------------
\* Both paths on one index (SpecCross)

\* the sequence the traversal path emitted for reference r
TravSeqs(r) == { records[k].seq : k \in { j \in 1..Len(records) : records[j].defline = refnames(r) } }

\* C7: on an index without masked positions, the packed-store path and the
\* traversal path emit the same sequence for every reference.
C7_PathsAgree ==
    (pc = "trav_done" /\ prev_out # <<>> /\ \A r \in 1..NumRefs : masked[r] = {}) =>
        \A r \in 0..(NumRefs - 1) :
            /\ HasHeader(prev_out, r)
            /\ TravSeqs(r) = { Concat(SeqLinesOf(prev_out, r)) }

----------------------------------------------------------------------------
\* Properties of main and driver (Spec)

HelpShown == \E k \in 1..Len(fout) : fout[k] = <<Usage>>
VersionShown == \E k \in 1..Len(fout) : fout[k] = <<"version">>

\* the path the flags ask for: names, else summary, else reconstruction
ExpectedPath ==
    IF names_only THEN "names"
    ELSE IF summarize_only THEN "summary"
    ELSE IF refFromEbwt THEN "traversal"
    ELSE "packed"

\* C8: whatever flags are set, driver enters exactly one output path and no
\* other: names before summary before reconstruction, and the traversal flag
\* chooses between traversal and packed store.
C8_ExactlyOnePath ==
    /\ Len(paths) <= 1
    /\ pc \in {"names_done", "summary_done", "trav_loop", "trav_done",
                "packed_refs", "packed_window", "packed_done"} =>
          paths = <<ExpectedPath>>
    /\ (pc = "exit" /\ paths # <<>>) => paths = <<ExpectedPath>>
    /\ (pc = "exit" /\ status = 0 /\ ~HelpShown /\ ~VersionShown) =>
          paths = <<ExpectedPath>>

\* a finished run with all three flags set
C8_Witness ==
    /\ pc = "exit"
    /\ status = 0
    /\ names_only /\ summarize_only /\ refFromEbwt
    /\ paths = <<"names">>

\* C9: a run that ends with a non-zero status for a missing index name or
\* an engine failure has written the Command line to the error stream, and
\* a run ends with status 0 only after its output (or help, or version).
C9_FailureEchoesCommand ==
    /\ (pc = "exit" /\ status # 0
          /\ failure \in {"noindex", "engine_exception", "engine_int"}) =>
              \E k \in 1..Len(cerr) : cerr[k] = CommandLine
    /\ (pc = "exit" /\ status = 0) =>
          (HelpShown \/ VersionShown \/ (Len(paths) = 1 /\ failure = "none"))

\* C9 (amended): a run that ends with a non-zero status for an engine
\* failure caught by main has written the Command line to the error stream;
\* a run that ends for a missing index name ends with status 1 after the
\* message and the usage text, without the Command line; a run ends with
\* status 0 only after its output (or help, or version).
C9_CaughtFailureEchoesCommand ==
    /\ (pc = "exit" /\ status # 0
          /\ failure \in {"engine_exception", "engine_int"}) =>
              \E k \in 1..Len(cerr) : cerr[k] = CommandLine
    /\ (pc = "exit" /\ failure = "noindex") =>
          /\ status = 1
          /\ cerr = <<"No index name given!", Usage>>
    /\ (pc = "exit" /\ status = 0) =>
          (HelpShown \/ VersionShown \/ (Len(paths) = 1 /\ failure = "none"))

\* the engine threw an int while the traversal path started
C9_Witness ==
    /\ pc = "exit"
    /\ status = 1
    /\ failure = "engine_int"
    /\ refFromEbwt /\ ~names_only /\ ~summarize_only
    /\ cerr = <<CommandLine>>

----------------------------------------------------------------------------
\* Properties of print_fasta_record (SpecFasta)

\* C6: the output is the header line and then, for a positive width, lines
\* that are never empty, are all of exactly width symbols but the last,
\* which has 1..width symbols, and that concatenate to the sequence; for
\* a width of 0 or less, the sequence on exactly one line.
C6_FastaWrapping ==
    pc = "fasta_done" =>
        /\ Len(fout) >= 1
        /\ fout[1] = <<">">> \o refnames(curr_ref)
        /\ LET lines == Tail(fout)
               n == Len(lines)
           IN IF across > 0
              THEN /\ n >= 1
                   /\ \A k \in 1..n : Len(lines[k]) >= 1
                   /\ \A k \in 1..(n - 1) : Len(lines[k]) = across
                   /\ Len(lines[n]) <= across
                   /\ Concat(lines) = curr_ref_seq
              ELSE lines = <<curr_ref_seq>>

\* a sequence wrapped into full lines and a shorter last line
C6_Witness ==
    /\ pc = "fasta_done"
    /\ across > 0
    /\ Len(fout) >= 3
    /\ Len(fout[Len(fout)]) < across

\* a sequence longer than one line emitted unwrapped
C6_WitnessUnwrapped ==
    /\ pc = "fasta_done"
    /\ across <= 0
    /\ Len(fout) = 2
    /\ Len(fout[2]) = MaxSeqLen

====
